---------------------------- MODULE Spec2Model ----------------------------
(***************************************************************************)
(* A model of the Japanese tutor: the memory store of japanese_tutor.py    *)
(* (the mistakes collection and its review selection), the frame           *)
(* processors of the pipeline variants, and the handlers that build the    *)
(* context sent to the language model.                                     *)
(***************************************************************************)
EXTENDS Integers, Sequences, FiniteSets, TLC

VARIABLES
    mistakes,   \* content of MISTAKES_PATH: kind -> sequence of entries
    now,        \* the clock read by datetime.now()
    lastCall,   \* the last memory tool call: its arguments and what
                \* result_callback received
    stageIn,    \* the last process_frame call: the stage, the frame and
                \* the direction it arrived in
    stageOut,   \* the frames that call pushed, in order, each with the
                \* direction it was pushed in
    program,    \* the entry point that is running
    profile,    \* content of USER_PROFILE_PATH
    messages,   \* japanese_tutor.py: the list shared with OpenAILLMContext
    transcript, \* the pipeline variants: TranscriptHandler.messages
    conversation_history,   \* the web interfaces: the turns kept
    joined,     \* the first participant has joined
    pending,    \* the replies under way: one text per turn handed to the
                \* language model or to text-to-speech
    emitted,    \* what the last handler sent towards the language model
    lessons,    \* content of LESSON_HISTORY_PATH: the lesson records
    toolCall,   \* the last profile or lesson tool call: its arguments,
                \* what it read and what result_callback received
    disk,       \* for each memory file, how its bytes relate to the
                \* collection: "whole", "empty" or "partial"
    participants,   \* the remote participants in the room
    taskState,  \* the PipelineTask: "running" or "cancelled"
    queued,     \* the frames given to task.queue_frame(s) that the
                \* pipeline has not put out yet, oldest first
    delivered,  \* the frames whose output reached the transport
    slept,      \* seconds the heartbeat task has slept
    idle,       \* seconds since the last user or assistant frame
    lastEvent,  \* the last event of the session
    tasks,      \* the tool calls that run as tasks of the event loop:
                \* for each its position, its arguments and what it loaded
    running,    \* the task that holds the event loop, or "none"
    callbacks,  \* what the last tool call handed to result_callback, in
                \* order
    httpResponse,   \* the last response of chat_handler, with how the
                    \* call of the language model ended
    GEMINI_API_KEY  \* build/web_interface_clean.py: the key in the
                    \* environment, "" when there is none

memVars == <<mistakes, now, lastCall>>

fileVars == <<lessons, toolCall, disk>>

stageVars == <<stageIn, stageOut>>

sessionVars ==
    <<program, profile, messages, transcript, conversation_history, joined,
      pending, emitted>>

liveVars ==
    <<participants, taskState, queued, delivered, slept, idle, lastEvent>>

callVars == <<tasks, running, callbacks, httpResponse, GEMINI_API_KEY>>

vars == <<memVars, stageVars, sessionVars, fileVars, liveVars, callVars>>

---------------------------------------------------------------------------
(* Bounds of the model.                                                    *)

\* entries a bucket may hold before record_mistake is no longer explored
MaxBucket == 3

\* turns a session may hold before no further user turn is explored
MaxTurns == 4

\* replies that may be under way at once
MaxPending == 2

\* records the lesson log may hold before save_lesson_history is no longer
\* explored
MaxLessons == 3

\* frames a session may queue before no further participant joins
MaxFrames == 4

\* seconds of a session that are explored
MaxClock == 160

\* largest "limit" argument explored
MaxLimit == 6

---------------------------------------------------------------------------
(* Python helpers.                                                         *)

Min(a, b) == IF a <= b THEN a ELSE b

Max(a, b) == IF a >= b THEN a ELSE b

Range(s) == {s[i] : i \in 1..Len(s)}

\* s[:n] of a Python list: the first n elements; a negative n counts from
\* the end
PySliceTo(s, n) ==
    IF n >= 0 THEN SubSeq(s, 1, Min(n, Len(s)))
    ELSE SubSeq(s, 1, Max(0, Len(s) + n))

---------------------------------------------------------------------------
(* Text.  A text is the sequence of its characters; a fixed text of the    *)
(* program that no code inspects is a sequence of one token.               *)

LowerLetters ==
    <<"a", "b", "c", "d", "e", "f", "g", "h", "i", "j", "k", "l", "m",
      "n", "o", "p", "q", "r", "s", "t", "u", "v", "w", "x", "y", "z">>

UpperLetters ==
    <<"A", "B", "C", "D", "E", "F", "G", "H", "I", "J", "K", "L", "M",
      "N", "O", "P", "Q", "R", "S", "T", "U", "V", "W", "X", "Y", "Z">>

Whitespace == {" ", "\t", "\n", "\r"}

LowerChar(c) ==
    IF \E i \in 1..Len(UpperLetters) : UpperLetters[i] = c
    THEN LowerLetters[CHOOSE i \in 1..Len(UpperLetters) : UpperLetters[i] = c]
    ELSE c

UpperChar(c) ==
    IF \E i \in 1..Len(LowerLetters) : LowerLetters[i] = c
    THEN UpperLetters[CHOOSE i \in 1..Len(LowerLetters) : LowerLetters[i] = c]
    ELSE c

\* str.lower()
Lower(s) == [i \in 1..Len(s) |-> LowerChar(s[i])]

\* str.upper()
Upper(s) == [i \in 1..Len(s) |-> UpperChar(s[i])]

\* str.strip()
Strip(s) ==
    LET kept == {i \in 1..Len(s) : s[i] \notin Whitespace}
    IN  IF kept = {} THEN <<>>
        ELSE SubSeq(s, CHOOSE i \in kept : \A j \in kept : i <= j,
                       CHOOSE i \in kept : \A j \in kept : i >= j)

\* sub in s
Contains(s, sub) ==
    \E i \in 0..(Len(s) - Len(sub)) : SubSeq(s, i + 1, i + Len(sub)) = sub

S_stop == <<"s", "t", "o", "p">>

S_quit == <<"q", "u", "i", "t">>

S_camera == <<"c", "a", "m", "e", "r", "a">>

S_look_at == <<"l", "o", "o", "k", " ", "a", "t">>

S_lamp == <<"l", "a", "m", "p">>

S_hello == <<"h", "e", "l", "l", "o">>

S_hi == <<"h", "i">>

S_IMAGE == <<"[", "I", "M", "A", "G", "E", "]">>

\* the user texts explored
T_stop == <<"s", "t", "o", "p">>

T_STOP_padded == <<" ", "S", "T", "O", "P", " ">>

T_Quit == <<"Q", "u", "i", "t">>

T_stop_it == <<"s", "t", "o", "p", " ", "i", "t">>

T_camera == <<"m", "y", " ", "C", "a", "m", "e", "r", "a">>

T_look_at ==
    <<"p", "l", "e", "a", "s", "e", " ", "l", "o", "o", "k", " ", "a", "t",
      " ", "t", "h", "i", "s">>

T_image == <<"[", "i", "m", "a", "g", "e", "]", " ", "n", "e", "k", "o">>

T_neko == <<"n", "e", "k", "o">>

UserTexts ==
    {T_stop, T_STOP_padded, T_Quit, T_stop_it, T_camera, T_look_at,
     T_image, T_neko}

\* the fixed texts of the program
UploadPrompt == <<"Please use the 'Upload Image' button to share an image.">>

Farewell == <<"Sayonara! Goodbye!">>

ImageQuestion ==
    <<"What does this image show? Please describe it in Japanese and English.">>

---------------------------------------------------------------------------
(* Frames and the frame processors of the pipeline variants.               *)

NoImage == "none"

\* the frame classes explored and the classes each one is an instance of
FrameBases(type) ==
    CASE type = "TranscriptionFrame" -> {"TranscriptionFrame", "TextFrame"}
      [] type = "InterimTranscriptionFrame" ->
             {"InterimTranscriptionFrame", "TextFrame"}
      [] OTHER -> {type}

\* isinstance(frame, cls)
IsInstance(frame, cls) == cls \in FrameBases(frame.type)

Frame(type, text, image, msgs) ==
    [messages |-> msgs, type |-> type, text |-> text, image |-> image]

NoFrame == Frame("none", <<>>, NoImage, <<>>)

TextFrame(text) == Frame("TextFrame", text, NoImage, <<>>)

LLMMessagesFrame(context) == Frame("LLMMessagesFrame", <<>>, NoImage, context)

\* {"role": role, "content": text}
Message(role, text) == [text |-> text, image |-> NoImage, role |-> role]

\* {"role": role, "content": [image_url part, text part]}
ImageMessage(role, image, text) ==
    [text |-> text, image |-> image, role |-> role]

\* the frames that arrive at a stage
InFrames ==
    {Frame(type, text, NoImage, <<>>) :
         type \in {"TranscriptionFrame", "InterimTranscriptionFrame",
                   "TextFrame"},
         text \in UserTexts}
    \cup {Frame("ImageRawFrame", <<>>, "photo", <<>>)}
    \cup {Frame(type, <<>>, NoImage, <<>>) :
              type \in {"EndFrame", "UserStartedSpeakingFrame",
                        "StartInterruptionFrame"}}

Directions == {"DOWNSTREAM", "UPSTREAM"}

\* self.push_frame(frame): the direction is not passed on and push_frame
\* sends downstream by default
Push(frame) == [frame |-> frame, direction |-> "DOWNSTREAM"]

\* the system prompt of each processor
SystemPrompt(stage) == <<"system prompt", stage>>

\* "camera" in text_lower or "look at" in text_lower
MentionsCamera(text) ==
    Contains(Lower(text), S_camera) \/ Contains(Lower(text), S_look_at)

\* [system prompt, the user's text]
TurnContext(stage, text) ==
    <<Message("system", SystemPrompt(stage)), Message("user", text)>>

\* ImageProcessor.process_frame
ImageProcessor_process_frame(frame, direction) ==
    IF IsInstance(frame, "ImageRawFrame")
    THEN <<Push(LLMMessagesFrame(
               <<Message("system", SystemPrompt("ImageProcessor")),
                 ImageMessage("user", frame.image, ImageQuestion)>>))>>
    ELSE <<Push(frame)>>

\* JapaneseTutorProcessor.process_frame of japanese_tutor_clean.py
CleanTutor_process_frame(frame, direction) ==
    IF IsInstance(frame, "TranscriptionFrame")
    THEN IF \/ Contains(Upper(frame.text), S_IMAGE)
            \/ MentionsCamera(frame.text)
         THEN IF MentionsCamera(frame.text)
              THEN <<Push(TextFrame(UploadPrompt))>>
              ELSE <<Push(LLMMessagesFrame(
                         TurnContext("CleanTutor", frame.text)))>>
         ELSE <<Push(LLMMessagesFrame(TurnContext("CleanTutor", frame.text)))>>
    ELSE IF IsInstance(frame, "TextFrame")
    THEN IF MentionsCamera(frame.text)
         THEN <<Push(TextFrame(UploadPrompt))>>
         ELSE <<Push(LLMMessagesFrame(TurnContext("CleanTutor", frame.text)))>>
    ELSE <<Push(frame)>>

\* JapaneseTutorProcessor.process_frame of tutor_multimodal.py
MultimodalTutor_process_frame(frame, direction) ==
    IF IsInstance(frame, "TranscriptionFrame")
    THEN IF Contains(Upper(frame.text), S_IMAGE)
         THEN <<Push(LLMMessagesFrame(
                    TurnContext("MultimodalTutor", frame.text)))>>
         ELSE <<Push(LLMMessagesFrame(
                    TurnContext("MultimodalTutor", frame.text)))>>
    ELSE IF IsInstance(frame, "TextFrame")
    THEN <<Push(LLMMessagesFrame(TurnContext("MultimodalTutor", frame.text)))>>
    ELSE <<Push(frame)>>

\* JapaneseTutorProcessor.process_frame of simple_tutor.py
SimpleTutor_process_frame(frame, direction) ==
    IF IsInstance(frame, "TranscriptionFrame")
    THEN <<Push(LLMMessagesFrame(TurnContext("SimpleTutor", frame.text)))>>
    ELSE IF IsInstance(frame, "TextFrame")
    THEN <<Push(LLMMessagesFrame(TurnContext("SimpleTutor", frame.text)))>>
    ELSE <<Push(frame)>>

---------------------------------------------------------------------------
(* The state of a session, and the state in which none runs.               *)

\* the profile initialize_memory writes
DefaultProfile ==
    [name |-> "", level |-> "beginner", interests |-> <<>>,
     preferred_topics |-> <<>>, learning_goals |-> <<>>]

\* profiles left in the file by earlier sessions
StoredProfiles ==
    {DefaultProfile,
     [DefaultProfile EXCEPT !.name = "Aiko"],
     [DefaultProfile EXCEPT !.name = "Aiko", !.level = "intermediate"]}

NoEmission == [by |-> "none", frames |-> <<>>]

\* chat_handler has not answered yet
NoResponse ==
    [status |-> 0, response |-> <<>>, error |-> "none", llm |-> "none"]

\* the memory files
Paths == {"USER_PROFILE_PATH", "LESSON_HISTORY_PATH", "MISTAKES_PATH"}

\* with open(path, "r") as f: json.load(f) succeeds
Loads(path) == disk[path] = "whole"

\* no profile or lesson tool was called yet
NoToolCall == [tool |-> "none", args |-> <<>>, loaded |-> <<>>,
               result |-> [success |-> TRUE]]

\* the lesson file initialize_memory writes, and no call yet; no room, a
\* task that runs with nothing queued
FilesIdle ==
    /\ lessons = <<>>
    /\ toolCall = NoToolCall
    /\ disk = [path \in Paths |-> "whole"]
    /\ participants = {}
    /\ taskState = "running"
    /\ queued = <<>>
    /\ delivered = <<>>
    /\ slept = 0
    /\ idle = 0
    /\ lastEvent = "none"
    /\ tasks = <<>>
    /\ running = "none"
    /\ callbacks = <<>>
    /\ httpResponse = NoResponse

\* no session runs
SessionIdle ==
    /\ program = "none"
    /\ profile = DefaultProfile
    /\ messages = <<>>
    /\ transcript = <<>>
    /\ conversation_history = <<>>
    /\ joined = FALSE
    /\ pending = <<>>
    /\ emitted = NoEmission

---------------------------------------------------------------------------
(* The mistakes collection (japanese_tutor.py).                            *)

\* the keys of the mistakes file in the order initialize_memory writes
\* them, which is the order mistakes.items() iterates
KindOrder == <<"vocabulary", "grammar", "pronunciation">>

Kinds == Range(KindOrder)

\* args holds no "type" key
NoType == "<absent>"

\* args holds no "limit" key
NoLimit == -1

\* Python's None in last_reviewed
None == -1

\* args.get("limit", 5)
DefaultLimit == 5

\* the "type" arguments explored: the three kinds, a kind outside the
\* closed set, and a call without the key
TypeArgs == Kinds \cup {"spelling", NoType}

LimitArgs == (0..MaxLimit) \cup {NoLimit}

\* the file initialize_memory writes
EmptyMistakes == [k \in Kinds |-> <<>>]

\* the entry record_mistake builds
NewEntry(mistake, correction, explanation, t) ==
    [mistake |-> mistake, correction |-> correction,
     explanation |-> explanation, timestamp |-> t,
     review_count |-> 0, last_reviewed |-> None]

\* a variant that inserts the entry at the head of the bucket
AppendEntryFront(m, k, e) == [m EXCEPT ![k] = <<e>> \o @]

\* mistakes[mistake_type].append(entry)
AppendEntry(m, k, e) == [m EXCEPT ![k] = Append(@, e)]

\* args.get("type", "vocabulary") of record_mistake
RecordType(type) == IF type = NoType THEN "vocabulary" ELSE type

\* the mistakes file record_mistake writes back
RecordedMistakes(m, type, e) ==
    IF RecordType(type) \in DOMAIN m
    THEN AppendEntry(m, RecordType(type), e)
    ELSE m

\* what record_mistake hands to result_callback
RecordResult(m, type) ==
    [success |-> TRUE, message |-> RecordType(type), items |-> <<>>]

\* args.get("limit", 5)
GetLimit(limit) == IF limit = NoLimit THEN DefaultLimit ELSE limit

\* how many entries of each bucket the mixed branch takes
PerBucket(limit) == (limit \div 3) + 1

\* the mixed branch: the head of every bucket in file order, then cut to
\* limit
RECURSIVE MixedItems(_, _, _)
MixedItems(m, limit, i) ==
    IF i > Len(KindOrder) THEN <<>>
    ELSE PySliceTo(m[KindOrder[i]], PerBucket(limit))
             \o MixedItems(m, limit, i + 1)

\* a variant whose typed branch takes the newest entries of the bucket
ReviewItemsNewest(m, type, limit) ==
    IF type # NoType /\ type \in DOMAIN m
    THEN SubSeq(m[type], Max(1, Len(m[type]) - limit + 1), Len(m[type]))
    ELSE PySliceTo(MixedItems(m, limit, 1), limit)

\* review_items of get_mistakes_for_review
ReviewItems(m, type, limit) ==
    IF type # NoType /\ type \in DOMAIN m
    THEN PySliceTo(m[type], limit)
    ELSE PySliceTo(MixedItems(m, limit, 1), limit)

\* what get_mistakes_for_review hands to result_callback
ReviewResult(m, type, limit) ==
    [success |-> TRUE, message |-> "items",
     items |-> ReviewItems(m, type, GetLimit(limit))]

\* no tool was called yet
NoCall ==
    [type |-> NoType, tool |-> "none",
     result |-> [success |-> TRUE, message |-> "none", items |-> <<>>],
     limit |-> NoLimit]

\* no frame was processed yet
StageIdle ==
    /\ stageIn = [frame |-> NoFrame, direction |-> "DOWNSTREAM",
                  stage |-> "none"]
    /\ stageOut = <<>>

InitMem ==
    /\ StageIdle
    /\ SessionIdle
    /\ FilesIdle
    /\ GEMINI_API_KEY = ""
    /\ mistakes = EmptyMistakes
    /\ now = 0
    /\ lastCall = NoCall

\* record_mistake(args): reads the file, appends to the bucket when the
\* kind is a key of the file, writes the file back and reports success
record_mistake ==
    \E type \in TypeArgs, mistake \in {"taberu"} :
        /\ RecordType(type) \in Kinds
               => Len(mistakes[RecordType(type)]) < MaxBucket
        /\ mistakes' = RecordedMistakes(mistakes, type,
                           NewEntry(mistake, "tabemasu", "polite form", now))
        /\ now' = IF RecordType(type) \in DOMAIN mistakes
                  THEN now + 1 ELSE now
        /\ lastCall' = [type |-> type, tool |-> "record_mistake",
                        result |-> RecordResult(mistakes, type),
                        limit |-> NoLimit]
        /\ UNCHANGED <<stageVars, sessionVars, fileVars, liveVars, callVars>>

\* get_mistakes_for_review(args): reads the file and reports the selected
\* entries; it writes nothing
get_mistakes_for_review ==
    \E type \in TypeArgs, limit \in LimitArgs :
        /\ lastCall' = [type |-> type, tool |-> "get_mistakes_for_review",
                        result |-> ReviewResult(mistakes, type, limit),
                        limit |-> limit]
        /\ UNCHANGED <<mistakes, now, stageVars, sessionVars, fileVars,
                       liveVars, callVars>>

\* the store after n more record_mistake calls of kind k, the first at
\* time t
RECURSIVE Recorded(_, _, _, _)
Recorded(m, k, n, t) ==
    IF n = 0 THEN m
    ELSE Recorded(RecordedMistakes(m, k,
                      NewEntry("taberu", "tabemasu", "polite form", t)),
                  k, n - 1, t + 1)

\* the store after a vocabulary, b grammar and c pronunciation mistakes
\* were recorded, in that order
StoreOf(a, b, c) ==
    Recorded(Recorded(Recorded(EmptyMistakes, "vocabulary", a, 0),
                      "grammar", b, a),
             "pronunciation", c, a + b)

\* the review is a function of the file: it is explored from every file
\* size record_mistake can leave
InitReview ==
    /\ StageIdle
    /\ SessionIdle
    /\ FilesIdle
    /\ GEMINI_API_KEY = ""
    /\ \E a \in 0..MaxBucket, b \in 0..MaxBucket, c \in 0..MaxBucket :
           /\ mistakes = StoreOf(a, b, c)
           /\ now = a + b + c
    /\ lastCall = NoCall

SpecRecord == InitMem /\ [][record_mistake]_vars

SpecReview == InitReview /\ [][get_mistakes_for_review]_vars

---------------------------------------------------------------------------
(* The user profile (japanese_tutor.py).                                   *)

\* the keys of the profile file, in file order
ProfileKeys ==
    <<"name", "level", "interests", "preferred_topics", "learning_goals">>

\* the keys a save_user_profile call may carry: those of the profile and
\* one the profile does not have
ArgKeys == ProfileKeys \o <<"age">>

\* the values a call may carry for a key
ArgValues(key) ==
    CASE key = "name" -> {"Aiko", "Ken"}
      [] key = "level" -> {"beginner", "intermediate"}
      [] key = "interests" -> {<<"anime">>, <<"anime", "travel">>}
      [] key = "preferred_topics" -> {<<"food">>}
      [] key = "learning_goals" -> {<<"JLPT N5">>}
      [] OTHER -> {"7"}

\* the key is left out of the call
AbsentText == "<absent>"

AbsentList == <<"<absent>">>

\* the args dictionary that carries the values given that are not absent
ArgsOf(name, level, interests, preferred_topics, learning_goals, age) ==
    LET given ==
            [k \in Range(ArgKeys) |->
                CASE k = "name" -> name # AbsentText
                  [] k = "level" -> level # AbsentText
                  [] k = "interests" -> interests # AbsentList
                  [] k = "preferred_topics" -> preferred_topics # AbsentList
                  [] k = "learning_goals" -> learning_goals # AbsentList
                  [] OTHER -> age # AbsentText]
    IN  [k \in {key \in Range(ArgKeys) : given[key]} |->
            CASE k = "name" -> name
              [] k = "level" -> level
              [] k = "interests" -> interests
              [] k = "preferred_topics" -> preferred_topics
              [] k = "learning_goals" -> learning_goals
              [] OTHER -> age]

\* every args dictionary of a call
ProfileArgs ==
    {ArgsOf(n, l, i, t, g, a) :
        n \in ArgValues("name") \cup {AbsentText},
        l \in ArgValues("level") \cup {AbsentText},
        i \in ArgValues("interests") \cup {AbsentList},
        t \in ArgValues("preferred_topics") \cup {AbsentList},
        g \in ArgValues("learning_goals") \cup {AbsentList},
        a \in ArgValues("age") \cup {AbsentText}}

\* a variant that extends the lists of the profile instead of replacing
\* them
UpdatedProfileExtending(p, args) ==
    [key \in DOMAIN p |->
        IF key \in DOMAIN args
        THEN IF key \in {"name", "level"} THEN args[key]
             ELSE p[key] \o args[key]
        ELSE p[key]]

\* a variant that replaces the profile: a key absent from the call is
\* reset
UpdatedProfileReplacing(p, args) ==
    [key \in DOMAIN p |->
        IF key \in DOMAIN args THEN args[key] ELSE DefaultProfile[key]]

\* the profile save_user_profile writes back: for key, value in
\* args.items(): if key in profile: profile[key] = value
UpdatedProfile(p, args) ==
    [key \in DOMAIN p |-> IF key \in DOMAIN args THEN args[key] ELSE p[key]]

\* save_user_profile(args): reads the file, overwrites the keys of the
\* profile the call carries, writes the file back and reports success
save_user_profile ==
    \E args \in ProfileArgs :
        /\ profile' = UpdatedProfile(profile, args)
        /\ toolCall' = [tool |-> "save_user_profile", args |-> args,
                        loaded |-> profile,
                        result |-> [success |-> TRUE,
                                    message |->
                                      "User profile updated successfully"]]
        /\ UNCHANGED <<program, messages, transcript, conversation_history,
                       joined, pending, emitted, lessons, disk, memVars,
                       stageVars, liveVars, callVars>>

\* get_user_profile(args): reads the file and reports the profile, or
\* the failure when the file does not load
get_user_profile ==
    /\ toolCall' = [tool |-> "get_user_profile", args |-> <<>>,
                    loaded |-> IF Loads("USER_PROFILE_PATH")
                               THEN profile ELSE <<>>,
                    result |-> IF Loads("USER_PROFILE_PATH")
                               THEN profile ELSE [success |-> FALSE]]
    /\ UNCHANGED <<sessionVars, lessons, disk, memVars, stageVars,
                   liveVars, callVars>>

InitProfile ==
    /\ StageIdle
    /\ SessionIdle
    /\ FilesIdle
    /\ GEMINI_API_KEY = ""
    /\ mistakes = EmptyMistakes
    /\ now = 0
    /\ lastCall = NoCall

NextProfile == save_user_profile \/ get_user_profile

SpecProfile == InitProfile /\ [][NextProfile]_vars

---------------------------------------------------------------------------
(* The lesson log (japanese_tutor.py).                                     *)

\* s[start:] of Python, for any integer start
PySliceFrom(s, start) ==
    LET from == IF start < 0 THEN Max(Len(s) + start, 0)
                ELSE Min(start, Len(s))
    IN  SubSeq(s, from + 1, Len(s))

DefaultTopic == "General Japanese"

TopicArgs == {NoType, "Greetings"}

ContentArgs == {NoType, "konnichiwa"}

\* args.get("topic", "General Japanese")
GetTopic(topic) == IF topic = NoType THEN DefaultTopic ELSE topic

\* args.get("content", "")
GetContent(content) == IF content = NoType THEN "" ELSE content

\* the record save_lesson_history builds
LessonRecord(topic, content, t) ==
    [timestamp |-> t, topic |-> GetTopic(topic),
     content |-> GetContent(content)]

\* a variant that puts the new record in front of the log
SavedHistoryNewestFirst(history, record) == <<record>> \o history

\* the log save_lesson_history writes back
SavedHistory(history, record) == Append(history, record)

\* recent_lessons of get_lesson_history: history[-limit:] if history
\* else []
RecentLessons(history, limit) ==
    IF history # <<>> THEN PySliceFrom(history, -limit) ELSE <<>>

\* save_lesson_history(args): reads the file, appends a record, writes
\* the file back and reports success
save_lesson_history ==
    \E topic \in TopicArgs, content \in ContentArgs :
        /\ Len(lessons) < MaxLessons
        /\ lessons' = SavedHistory(lessons,
                                   LessonRecord(topic, content, now))
        /\ now' = now + 1
        /\ toolCall' = [tool |-> "save_lesson_history",
                        args |-> [topic |-> topic, content |-> content],
                        loaded |-> lessons,
                        result |-> [success |-> TRUE,
                                    message |-> "Lesson history saved"]]
        /\ UNCHANGED <<mistakes, lastCall, disk, sessionVars, stageVars,
                       liveVars, callVars>>

\* get_lesson_history(args): reads the file and reports the newest
\* records; it writes nothing
get_lesson_history ==
    \E limit \in LimitArgs :
        /\ toolCall' = [tool |-> "get_lesson_history",
                        args |-> [limit |-> limit],
                        loaded |-> lessons,
                        result |-> [lessons |->
                                      RecentLessons(lessons,
                                                    GetLimit(limit))]]
        /\ UNCHANGED <<lessons, disk, memVars, sessionVars, stageVars,
                       liveVars, callVars>>

NextLessons ==
    \/ save_lesson_history
    \/ get_lesson_history
    \/ get_user_profile

SpecLessons == InitProfile /\ [][NextLessons]_vars

---------------------------------------------------------------------------
(* Writing the memory files: open(path, "w") empties the file, json.dump   *)
(* then writes the new collection; either may fail, and the process may    *)
(* stop in between.                                                        *)

\* how a write ends: done; open(path, "w") raises and the file is as it
\* was; the write stops after open emptied the file; the write stops while
\* json.dump is writing
WriteOutcomes ==
    {"written", "open failed", "stopped after open", "stopped in dump"}

\* the bytes of the file after a write that ended so
FileAfter(outcome) ==
    CASE outcome \in {"written", "open failed"} -> "whole"
      [] outcome = "stopped after open" -> "empty"
      [] OTHER -> "partial"

\* save_user_profile with the ways its write may end; a file that does not
\* load raises before anything is written
save_user_profile_write ==
    \E args \in {a \in ProfileArgs : DOMAIN a = {"name"}},
       outcome \in WriteOutcomes :
        /\ IF Loads("USER_PROFILE_PATH")
           THEN /\ profile' = IF outcome = "written"
                              THEN UpdatedProfile(profile, args)
                              ELSE profile
                /\ disk' = [disk EXCEPT
                               !["USER_PROFILE_PATH"] = FileAfter(outcome)]
           ELSE UNCHANGED <<profile, disk, callVars>>
        /\ toolCall' =
               [tool |-> "save_user_profile", args |-> args,
                loaded |-> IF Loads("USER_PROFILE_PATH")
                           THEN profile ELSE <<>>,
                result |-> [success |-> Loads("USER_PROFILE_PATH")
                                          /\ outcome = "written"]]
        /\ UNCHANGED <<program, messages, transcript, conversation_history,
                       joined, pending, emitted, lessons, memVars,
                       stageVars, liveVars, callVars>>

\* record_mistake with the ways its write may end
record_mistake_write ==
    \E outcome \in WriteOutcomes :
        /\ Len(mistakes[RecordType(NoType)]) < MaxBucket
        /\ IF Loads("MISTAKES_PATH")
           THEN /\ mistakes' = IF outcome = "written"
                               THEN RecordedMistakes(mistakes, NoType,
                                        NewEntry("taberu", "tabemasu",
                                                 "polite form", now))
                               ELSE mistakes
                /\ disk' = [disk EXCEPT
                               !["MISTAKES_PATH"] = FileAfter(outcome)]
                /\ now' = IF outcome = "written" THEN now + 1 ELSE now
           ELSE UNCHANGED <<mistakes, disk, now, callVars>>
        /\ lastCall' =
               [type |-> NoType, tool |-> "record_mistake",
                result |-> [success |-> Loads("MISTAKES_PATH")
                                          /\ outcome = "written",
                            message |-> RecordType(NoType),
                            items |-> <<>>],
                limit |-> NoLimit]
        /\ UNCHANGED <<lessons, toolCall, sessionVars, stageVars, liveVars,
                       callVars>>

\* save_lesson_history with the ways its write may end
save_lesson_history_write ==
    \E outcome \in WriteOutcomes :
        /\ Len(lessons) < MaxLessons
        /\ IF Loads("LESSON_HISTORY_PATH")
           THEN /\ lessons' = IF outcome = "written"
                              THEN SavedHistory(lessons,
                                       LessonRecord(NoType, NoType, now))
                              ELSE lessons
                /\ disk' = [disk EXCEPT
                               !["LESSON_HISTORY_PATH"] = FileAfter(outcome)]
                /\ now' = IF outcome = "written" THEN now + 1 ELSE now
           ELSE UNCHANGED <<lessons, disk, now, callVars>>
        /\ toolCall' =
               [tool |-> "save_lesson_history",
                args |-> [topic |-> NoType, content |-> NoType],
                loaded |-> IF Loads("LESSON_HISTORY_PATH")
                           THEN lessons ELSE <<>>,
                result |-> [success |-> Loads("LESSON_HISTORY_PATH")
                                          /\ outcome = "written"]]
        /\ UNCHANGED <<mistakes, lastCall, sessionVars, stageVars, liveVars,
                       callVars>>

NextWrite ==
    \/ save_user_profile_write
    \/ record_mistake_write
    \/ save_lesson_history_write

SpecWrite == InitProfile /\ [][NextWrite]_vars

---------------------------------------------------------------------------
(* One process_frame call of a stage.                                      *)

InitStage ==
    /\ StageIdle
    /\ SessionIdle
    /\ FilesIdle
    /\ GEMINI_API_KEY = ""
    /\ mistakes = EmptyMistakes
    /\ now = 0
    /\ lastCall = NoCall

Processed(stage, frame, direction, out) ==
    /\ stageIn' = [frame |-> frame, direction |-> direction, stage |-> stage]
    /\ stageOut' = out
    /\ UNCHANGED <<memVars, sessionVars, fileVars, liveVars, callVars>>

ImageProcessorStep ==
    \E frame \in InFrames, direction \in Directions :
        Processed("ImageProcessor", frame, direction,
                  ImageProcessor_process_frame(frame, direction))

CleanTutorStep ==
    \E frame \in InFrames, direction \in Directions :
        Processed("CleanTutor", frame, direction,
                  CleanTutor_process_frame(frame, direction))

MultimodalTutorStep ==
    \E frame \in InFrames, direction \in Directions :
        Processed("MultimodalTutor", frame, direction,
                  MultimodalTutor_process_frame(frame, direction))

SimpleTutorStep ==
    \E frame \in InFrames, direction \in Directions :
        Processed("SimpleTutor", frame, direction,
                  SimpleTutor_process_frame(frame, direction))

NextStage ==
    \/ ImageProcessorStep
    \/ CleanTutorStep
    \/ MultimodalTutorStep
    \/ SimpleTutorStep

SpecStage == InitStage /\ [][NextStage]_vars

---------------------------------------------------------------------------
(* Sessions: the handlers that keep the turns of a conversation and build  *)
(* the context for the language model.                                     *)

PipelinePrograms ==
    {"japanese_tutor_clean.py", "tutor_multimodal.py", "simple_tutor.py"}

\* the web interfaces: the OpenAI one and the Gemini one of build/
WebPrograms == {"web_interface_clean.py", "build/web_interface_clean.py"}

Programs == {"japanese_tutor.py"} \cup WebPrograms \cup PipelinePrograms

\* the texts a user says or types in a session
SessionTexts == {T_neko, T_look_at, T_stop}

T_blank == <<" ", " ">>

\* the text of a reply of the language model
LLMReply == <<"reply">>

\* a variant that greets everybody with the same words
GreetingForAnybody(p) == <<"Welcome to your Japanese language tutor!">>

\* the greeting of on_first_participant_joined of japanese_tutor.py
Greeting(p) ==
    IF p.name # ""
    THEN <<"Welcome back, ", p.name,
           "! Let's continue with your Japanese learning journey.">>
         \o (IF p.level # "beginner"
             THEN <<" (Let's study Japanese together today too!)">>
             ELSE <<>>)
    ELSE <<"Welcome to your Japanese language tutor!">>

\* context_aggregator.user().get_context_frame(): the frame holds the
\* context, whose messages are the list `messages`
ContextFrame(msgs) == Frame("OpenAILLMContextFrame", <<>>, NoImage, msgs)

\* is_final of on_transcription_message
IsFinal(message) ==
    IF message.rawResponse # "absent"
    THEN message.rawResponse = "final"
    ELSE message.is_final = "true"

\* the transcription messages the transport delivers
TranscriptionMessages ==
    [text : SessionTexts \cup {T_blank},
     rawResponse : {"absent", "final", "interim", "empty"},
     is_final : {"absent", "true", "false"}]

\* the frames a frame becomes on its way from the transcript processor to
\* the language model: ImageProcessor (not in simple_tutor.py), then
\* JapaneseTutorProcessor
RECURSIVE ThroughTutor(_, _)
ThroughTutor(prog, pushes) ==
    IF pushes = <<>> THEN <<>>
    ELSE (CASE prog = "japanese_tutor_clean.py" ->
                   CleanTutor_process_frame(Head(pushes).frame,
                                            Head(pushes).direction)
            [] prog = "tutor_multimodal.py" ->
                   MultimodalTutor_process_frame(Head(pushes).frame,
                                                 Head(pushes).direction)
            [] OTHER ->
                   SimpleTutor_process_frame(Head(pushes).frame,
                                             Head(pushes).direction))
         \o ThroughTutor(prog, Tail(pushes))

ToLLM(prog, frame) ==
    LET pushes ==
            ThroughTutor(prog,
                IF prog = "simple_tutor.py" THEN <<Push(frame)>>
                ELSE ImageProcessor_process_frame(frame, "DOWNSTREAM"))
    IN  [i \in 1..Len(pushes) |-> pushes[i].frame]

\* welcome_context of on_first_participant_joined of the pipeline variants
WelcomeContext(prog) ==
    IF prog = "simple_tutor.py"
    THEN <<Message("system", <<"welcome prompt", prog>>)>>
    ELSE <<Message("system", <<"welcome prompt", prog>>),
           Message("user", <<"Start the session with a brief welcome.">>)>>

\* what text-to-speech will say for the frames that left the tutor: a
\* TextFrame is spoken as it is, a context is answered by the model
RepliesFor(frames) ==
    [i \in 1..Len(frames) |->
        IF frames[i].type = "TextFrame" THEN frames[i].text ELSE LLMReply]

\* messages of chat_handler of web_interface_clean.py
ChatMessages(history, message, image_data) ==
    IF image_data # NoImage
    THEN <<Message("system", SystemPrompt("web_interface_clean")),
           ImageMessage("user", image_data,
                        IF message # <<>> THEN message ELSE ImageQuestion)>>
    ELSE <<Message("system", SystemPrompt("web_interface_clean"))>>
             \o history

ChatRequest(msgs) == Frame("ChatCompletionRequest", <<>>, NoImage, msgs)

\* the image_data a chat request may carry: none, a data URL, the bare
\* base64 text
DataUrl == "data:image/jpeg;base64,AAAA"

BareData == "AAAA"

ChatImages == {NoImage, DataUrl, BareData}

\* image_data.split(",")
SplitAtComma(image_data) ==
    IF image_data = DataUrl THEN <<"data:image/jpeg;base64", "AAAA">>
    ELSE <<image_data>>

\* one entry of gemini_messages for an entry of the history: the entry
\* that equals the last one gets the image when the request has one
GeminiMessage(msg, last, image_data) ==
    LET role == IF msg.role = "user" THEN "user" ELSE "model"
    IN  IF msg.role = "user" /\ image_data # NoImage /\ msg = last
        THEN ImageMessage(role,
                          IF Len(SplitAtComma(image_data)) > 1
                          THEN SplitAtComma(image_data)[2] ELSE NoImage,
                          msg.text)
        ELSE Message(role, msg.text)

\* gemini_messages of chat_handler of build/web_interface_clean.py
GeminiMessages(history, image_data) ==
    <<Message("user", SystemPrompt("web_interface_clean")),
      Message("model", <<"I'll follow these instructions carefully.">>)>>
    \o [i \in 1..Len(history) |->
           GeminiMessage(history[i], history[Len(history)], image_data)]

\* the request to the Gemini service, with the image_data it was built
\* for
GeminiRequest(image_data, msgs) ==
    Frame("GenerateContentRequest", <<>>, image_data, msgs)

Apology == <<"Sorry, I couldn't process that request.">>

\* the reply of build/web_interface_clean.py when there is no key
FallbackReply(message) ==
    CASE Contains(Lower(message), S_lamp) ->
             <<"(ranpu) is lamp in Japanese.">>
      [] MentionsCamera(message) -> UploadPrompt
      [] \/ Contains(Lower(message), S_hello)
         \/ Contains(Lower(message), S_hi) ->
             <<"(konnichiwa)! How can I help?">>
      [] \/ Contains(Lower(message), S_stop)
         \/ Contains(Lower(message), S_quit) -> Farewell
      [] OTHER -> <<"(nihongo) means Japanese language.">>

\* how the call of the language model ends: a reply; a status other than
\* 200; an exception, a timeout among them; status 200 with a body that
\* holds no reply
LLMOutcomes == {"ok", "status", "exception", "empty result"}

\* assistant_message of build/web_interface_clean.py
AssistantMessage(outcome, reply) ==
    CASE outcome = "ok" -> reply
      [] outcome = "empty result" -> <<>>
      [] OTHER -> Apology

InitSession ==
    /\ StageIdle
    /\ FilesIdle
    /\ mistakes = EmptyMistakes
    /\ now = 0
    /\ lastCall = NoCall
    /\ program \in Programs
    /\ GEMINI_API_KEY
           \in IF program = "build/web_interface_clean.py"
               THEN {"", "key"} ELSE {""}
    /\ profile \in StoredProfiles
    /\ messages = IF program = "japanese_tutor.py"
                  THEN <<Message("system", SystemPrompt("japanese_tutor"))>>
                  ELSE <<>>
    /\ transcript = <<>>
    /\ conversation_history = <<>>
    /\ joined = FALSE
    /\ pending = <<>>
    /\ emitted = NoEmission

\* japanese_tutor.py: the profile is read, the greeting is appended to
\* the context and queued; the read is outside any try, so a file that
\* does not load ends the handler before the greeting
on_first_participant_joined ==
    /\ program = "japanese_tutor.py"
    /\ ~joined
    /\ joined' = TRUE
    /\ messages' = IF Loads("USER_PROFILE_PATH")
                   THEN Append(messages,
                               Message("assistant", Greeting(profile)))
                   ELSE messages
    /\ emitted' = [by |-> "on_first_participant_joined",
                   frames |-> IF Loads("USER_PROFILE_PATH")
                              THEN <<TextFrame(Greeting(profile))>>
                              ELSE <<>>]
    /\ UNCHANGED <<program, profile, transcript, conversation_history,
                   pending, memVars, stageVars, fileVars, liveVars, callVars>>

\* japanese_tutor.py: a final transcription with text is appended to the
\* context and the context frame is queued
on_transcription_message ==
    /\ program = "japanese_tutor.py"
    /\ joined
    /\ \E message \in TranscriptionMessages :
           IF Strip(message.text) # <<>> /\ IsFinal(message)
           THEN /\ Len(messages) <= MaxTurns
                /\ Len(pending) < MaxPending
                /\ messages' = Append(messages, Message("user", message.text))
                /\ emitted' = [by |-> "on_transcription_message",
                               frames |-> <<ContextFrame(messages')>>]
                /\ pending' = Append(pending, LLMReply)
           ELSE /\ emitted' = [by |-> "on_transcription_message",
                               frames |-> <<>>]
                /\ UNCHANGED <<messages, pending, liveVars, callVars>>
    /\ UNCHANGED <<program, profile, transcript, conversation_history,
                   joined, memVars, stageVars, fileVars, liveVars, callVars>>

\* japanese_tutor.py: context_aggregator.assistant() appends the reply of
\* the language model to the context
assistant_aggregator ==
    /\ program = "japanese_tutor.py"
    /\ pending # <<>>
    /\ messages' = Append(messages, Message("assistant", Head(pending)))
    /\ pending' = Tail(pending)
    /\ UNCHANGED <<program, profile, transcript, conversation_history,
                   joined, emitted, memVars, stageVars, fileVars, liveVars,
                   callVars>>

\* the pipeline variants: the welcome context is queued for the model
pipeline_first_participant_joined ==
    /\ program \in PipelinePrograms
    /\ ~joined
    /\ joined' = TRUE
    /\ emitted' = [by |-> "on_first_participant_joined",
                   frames |-> ToLLM(program,
                                    LLMMessagesFrame(WelcomeContext(program)))]
    /\ pending' = pending \o RepliesFor(emitted'.frames)
    /\ UNCHANGED <<program, profile, messages, transcript,
                   conversation_history, memVars, stageVars, fileVars,
                   liveVars, callVars>>

\* the pipeline variants: a final TranscriptionFrame of the speech-to-text
\* service is noted by the transcript processor and reaches the tutor
pipeline_transcription ==
    /\ program \in PipelinePrograms
    /\ joined
    /\ Len(transcript) < MaxTurns
    /\ Len(pending) < MaxPending
    /\ \E text \in SessionTexts :
           /\ transcript' = Append(transcript, Message("user", text))
           /\ emitted' = [by |-> "process_frame",
                          frames |-> ToLLM(program,
                                        Frame("TranscriptionFrame", text,
                                              NoImage, <<>>))]
           /\ pending' = pending \o RepliesFor(emitted'.frames)
    /\ UNCHANGED <<program, profile, messages, conversation_history, joined,
                   memVars, stageVars, fileVars, liveVars, callVars>>

\* japanese_tutor_clean.py and tutor_multimodal.py: on_app_message queues
\* an uploaded image as an ImageRawFrame
pipeline_image_upload ==
    /\ program \in PipelinePrograms \ {"simple_tutor.py"}
    /\ joined
    /\ Len(transcript) < MaxTurns
    /\ Len(pending) < MaxPending
    /\ emitted' = [by |-> "on_app_message",
                   frames |-> ToLLM(program,
                                 Frame("ImageRawFrame", <<>>, "photo", <<>>))]
    /\ pending' = pending \o RepliesFor(emitted'.frames)
    /\ UNCHANGED <<program, profile, messages, transcript,
                   conversation_history, joined, memVars, stageVars, fileVars,
                   liveVars, callVars>>

\* the pipeline variants: what was spoken is noted by the transcript
\* processor (on_transcript_update)
pipeline_assistant_transcript ==
    /\ program \in PipelinePrograms
    /\ pending # <<>>
    /\ transcript' = Append(transcript, Message("assistant", Head(pending)))
    /\ pending' = Tail(pending)
    /\ UNCHANGED <<program, profile, messages, conversation_history, joined,
                   emitted, memVars, stageVars, fileVars, liveVars, callVars>>

\* chat_handler up to the call of the model: the message is appended to
\* the history and the request is sent; build/web_interface_clean.py
\* without a key answers at once with a fixed reply
chat_request ==
    /\ program \in WebPrograms
    /\ Len(conversation_history) < MaxTurns
    /\ Len(pending) < MaxPending
    /\ \E message \in SessionTexts,
          image_data \in (IF program = "web_interface_clean.py"
                          THEN {NoImage, "photo"} ELSE ChatImages) :
           LET history == Append(conversation_history,
                                 Message("user", message))
           IN  CASE program = "web_interface_clean.py" ->
                        /\ conversation_history' = history
                        /\ emitted' =
                               [by |-> "chat_handler",
                                frames |-> <<ChatRequest(
                                    ChatMessages(history, message,
                                                 image_data))>>]
                        /\ pending' = Append(pending, LLMReply)
                        /\ UNCHANGED httpResponse
                 [] program # "web_interface_clean.py"
                        /\ GEMINI_API_KEY # "" ->
                        /\ conversation_history' = history
                        /\ emitted' =
                               [by |-> "chat_handler",
                                frames |-> <<GeminiRequest(image_data,
                                    GeminiMessages(history, image_data))>>]
                        /\ pending' = Append(pending, LLMReply)
                        /\ UNCHANGED httpResponse
                 [] OTHER ->
                        /\ conversation_history' =
                               Append(history,
                                      Message("assistant",
                                              FallbackReply(message)))
                        /\ emitted' = [by |-> "chat_handler",
                                       frames |-> <<>>]
                        /\ httpResponse' =
                               [status |-> 200,
                                response |-> FallbackReply(message),
                                error |-> "none", llm |-> "none"]
                        /\ UNCHANGED pending
    /\ UNCHANGED <<program, profile, messages, transcript, joined, memVars,
                   stageVars, fileVars, liveVars, tasks, running, callbacks,
                   GEMINI_API_KEY>>

\* chat_handler after the call of the model. web_interface_clean.py: a
\* reply is appended to the history and returned, any other outcome is
\* answered with an error of status 500 and appends nothing.
\* build/web_interface_clean.py: the reply, or the apology when the call
\* failed, is appended to the history and returned
chat_response ==
    /\ program \in WebPrograms
    /\ pending # <<>>
    /\ \E outcome \in LLMOutcomes :
           IF program = "web_interface_clean.py"
           THEN /\ conversation_history' =
                       IF outcome = "ok"
                       THEN Append(conversation_history,
                                   Message("assistant", Head(pending)))
                       ELSE conversation_history
                /\ httpResponse' =
                       IF outcome = "ok"
                       THEN [status |-> 200, response |-> Head(pending),
                             error |-> "none", llm |-> outcome]
                       ELSE [status |-> 500, response |-> <<>>,
                             error |-> outcome, llm |-> outcome]
           ELSE /\ conversation_history' =
                       Append(conversation_history,
                              Message("assistant",
                                  AssistantMessage(outcome, Head(pending))))
                /\ httpResponse' =
                       [status |-> 200,
                        response |-> AssistantMessage(outcome,
                                                      Head(pending)),
                        error |-> "none", llm |-> outcome]
    /\ pending' = Tail(pending)
    /\ UNCHANGED <<program, profile, messages, transcript, joined, emitted,
                   memVars, stageVars, fileVars, liveVars, tasks, running,
                   callbacks, GEMINI_API_KEY>>

NextSession ==
    \/ on_first_participant_joined
    \/ on_transcription_message
    \/ assistant_aggregator
    \/ pipeline_first_participant_joined
    \/ pipeline_transcription
    \/ pipeline_image_upload
    \/ pipeline_assistant_transcript
    \/ chat_request
    \/ chat_response

SpecSession == InitSession /\ [][NextSession]_vars

---------------------------------------------------------------------------
(* The room and the pipeline task: participants join and leave, frames     *)
(* are queued, put out and cancelled.                                      *)

\* the people who may come to the room: one with a user name, one without
People ==
    {[id |-> "p1", user_name |-> "Aiko"], [id |-> "p2", user_name |-> ""]}

\* len(transport.participants()): the tutor is a participant of the room
RoomSize(remote) == Cardinality(remote) + 1

\* the programs that run a pipeline task in a room
RoomPrograms == {"japanese_tutor.py"} \cup PipelinePrograms

\* the greeting of on_participant_joined of japanese_tutor.py
JoinGreeting(participant) ==
    IF participant.user_name # ""
    THEN <<"Hello ", participant.user_name,
           "! I'm your Japanese tutor.">>
    ELSE <<"Hello! I'm your Japanese tutor.">>

\* the farewell of on_participant_left of japanese_tutor.py
LeaveFarewell(p) ==
    IF p.name # ""
    THEN <<"Goodbye, ", p.name,
           "! I've saved our progress. See you next time!">>
         \o (IF p.level # "beginner"
             THEN <<" (See you again!)">>
             ELSE <<>>)
    ELSE <<"Goodbye! I've saved our progress. See you next time!">>

\* len(participants) <= 1 of on_participant_left of japanese_tutor.py
OnlyTheTutorRemains(remote) == RoomSize(remote) <= 1

\* the frames the handlers of a join queue: on_first_participant_joined
\* for the first participant, and on_participant_joined, which only
\* japanese_tutor.py registers
JoinFrames(prog, first, p, participant) ==
    (IF ~first THEN <<>>
     ELSE IF prog = "japanese_tutor.py" THEN <<TextFrame(Greeting(p))>>
     ELSE <<LLMMessagesFrame(WelcomeContext(prog))>>)
    \o (IF prog = "japanese_tutor.py"
        THEN <<TextFrame(JoinGreeting(participant))>>
        ELSE <<>>)

InitRoom ==
    /\ StageIdle
    /\ FilesIdle
    /\ GEMINI_API_KEY = ""
    /\ mistakes = EmptyMistakes
    /\ now = 0
    /\ lastCall = NoCall
    /\ program \in RoomPrograms
    /\ profile \in StoredProfiles
    /\ messages = IF program = "japanese_tutor.py"
                  THEN <<Message("system", SystemPrompt("japanese_tutor"))>>
                  ELSE <<>>
    /\ transcript = <<>>
    /\ conversation_history = <<>>
    /\ joined = FALSE
    /\ pending = <<>>
    /\ emitted = NoEmission

\* a participant joins the room: the handlers of the program queue their
\* frames, japanese_tutor.py also appends its first greeting to the context
participant_joined ==
    /\ taskState = "running"
    /\ Len(queued) + Len(delivered) < MaxFrames
    /\ \E participant \in People \ participants :
           /\ participants' = participants \cup {participant}
           /\ queued' = queued
                  \o JoinFrames(program, ~joined, profile, participant)
    /\ messages' = IF ~joined /\ program = "japanese_tutor.py"
                   THEN Append(messages,
                               Message("assistant", Greeting(profile)))
                   ELSE messages
    /\ joined' = TRUE
    /\ lastEvent' = "participant_joined"
    /\ UNCHANGED <<program, profile, transcript, conversation_history,
                   pending, emitted, taskState, delivered, slept, idle,
                   memVars, stageVars, fileVars, callVars>>

\* the running pipeline puts out the oldest queued frame
deliver ==
    /\ taskState = "running"
    /\ queued # <<>>
    /\ delivered' = Append(delivered, Head(queued))
    /\ queued' = Tail(queued)
    /\ idle' = 0
    /\ lastEvent' = "deliver"
    /\ UNCHANGED <<sessionVars, participants, taskState, slept, memVars,
                   stageVars, fileVars, callVars>>

\* on_participant_left: japanese_tutor.py queues the farewell and cancels
\* the task when only the tutor remains; the pipeline variants cancel the
\* task
participant_left ==
    /\ taskState = "running"
    /\ \E participant \in participants :
           /\ participants' = participants \ {participant}
           /\ IF program = "japanese_tutor.py"
              THEN IF OnlyTheTutorRemains(participants')
                   THEN /\ queued' = Append(queued,
                                        TextFrame(LeaveFarewell(profile)))
                        /\ taskState' = "cancelled"
                   ELSE UNCHANGED <<queued, taskState, callVars>>
              ELSE /\ taskState' = "cancelled"
                   /\ UNCHANGED queued
    /\ lastEvent' = "participant_left"
    /\ UNCHANGED <<sessionVars, delivered, slept, idle, memVars, stageVars,
                   fileVars, callVars>>

NextRoom == participant_joined \/ deliver \/ participant_left

SpecRoom == InitRoom /\ [][NextRoom]_vars

---------------------------------------------------------------------------
(* The heartbeat task of japanese_tutor.py, with the clock in seconds.     *)

\* asyncio.sleep(60)
HeartbeatSeconds == 60

\* the step of the clock
TickSeconds == HeartbeatSeconds \div 3

\* the session listens: somebody joined, the task runs and no frame is on
\* its way through the pipeline
Listening == joined /\ taskState = "running" /\ queued = <<>>

InitHeartbeat ==
    /\ InitRoom
    /\ program = "japanese_tutor.py"
    /\ profile = DefaultProfile

\* time passes while the heartbeat task sleeps
tick ==
    /\ taskState = "running"
    /\ now < MaxClock
    /\ slept < HeartbeatSeconds
    /\ now' = now + TickSeconds
    /\ slept' = slept + TickSeconds
    /\ idle' = idle + TickSeconds
    /\ lastEvent' = "tick"
    /\ UNCHANGED <<mistakes, lastCall, sessionVars, stageVars, fileVars,
                   participants, taskState, queued, delivered, callVars>>

\* the heartbeat task wakes up: task.queue_frames([]) queues the frames of
\* an empty list, and the task sleeps again
heartbeat ==
    /\ taskState = "running"
    /\ slept >= HeartbeatSeconds
    /\ queued' = queued \o <<>>
    /\ slept' = 0
    /\ lastEvent' = "heartbeat"
    /\ UNCHANGED <<memVars, sessionVars, stageVars, fileVars, participants,
                   taskState, delivered, idle, callVars>>

\* on_transcription_message with a final text, in a room: the turn is
\* appended to the context and the context frame is queued
user_speaks ==
    /\ taskState = "running"
    /\ joined
    /\ Len(messages) <= MaxTurns
    /\ Len(queued) < MaxPending
    /\ messages' = Append(messages, Message("user", T_neko))
    /\ queued' = Append(queued, ContextFrame(messages'))
    /\ idle' = 0
    /\ lastEvent' = "on_transcription_message"
    /\ UNCHANGED <<program, profile, transcript, conversation_history,
                   joined, pending, emitted, memVars, stageVars, fileVars,
                   participants, taskState, delivered, slept, callVars>>

NextHeartbeat ==
    \/ tick
    \/ heartbeat
    \/ user_speaks
    \/ participant_joined
    \/ deliver
    \/ participant_left

SpecHeartbeat == InitHeartbeat /\ [][NextHeartbeat]_vars

---------------------------------------------------------------------------
(* Tool calls that run as tasks of one event loop (japanese_tutor.py): a   *)
(* handler runs until a statement that awaits, and only then may another   *)
(* task run.                                                               *)

TaskIds == {"a", "b"}

\* a variant in which reading and writing the file give the loop away
AwaitsEverywhere(step) == TRUE

\* the statement is an await: the handlers await result_callback only;
\* open, json.load and json.dump are plain calls
Awaits(step) == step = "callback"

\* two record_mistake calls
MistakeCallPairs ==
    {[t \in TaskIds |->
         [tool |-> "record_mistake",
          args |-> IF t = "a" THEN [type |-> ka, mistake |-> "taberu"]
                   ELSE [type |-> kb, mistake |-> "nomu"]]] :
        ka \in Kinds, kb \in Kinds}

\* two save_lesson_history calls
LessonCallPairs ==
    {[t \in TaskIds |->
         [tool |-> "save_lesson_history",
          args |-> IF t = "a" THEN [topic |-> ta, content |-> "konnichiwa"]
                   ELSE [topic |-> tb, content |-> "ichi ni san"]]] :
        ta \in TopicArgs, tb \in TopicArgs}

\* two save_user_profile calls on different fields of the profile
ProfileCallPairs ==
    {[t \in TaskIds |->
         [tool |-> "save_user_profile",
          args |-> IF t = "a" THEN aa ELSE ab]] :
        aa \in {x \in ProfileArgs : DOMAIN x = {"name"}},
        ab \in {x \in ProfileArgs :
                   /\ Cardinality(DOMAIN x) = 1
                   /\ DOMAIN x \subseteq Range(ProfileKeys) \ {"name"}}}

CallPairs == MistakeCallPairs \cup LessonCallPairs \cup ProfileCallPairs

\* the collection in the file the tool works on
StoredCollection(tool) ==
    CASE tool = "record_mistake" -> mistakes
      [] tool = "save_lesson_history" -> lessons
      [] OTHER -> profile

\* the collection the handler writes back, from the one it read
Written(call, loaded, t) ==
    CASE call.tool = "record_mistake" ->
             RecordedMistakes(loaded, call.args.type,
                 NewEntry(call.args.mistake, "", "", t))
      [] call.tool = "save_lesson_history" ->
             SavedHistory(loaded,
                 LessonRecord(call.args.topic, call.args.content, t))
      [] OTHER -> UpdatedProfile(loaded, call.args)

InitTasks ==
    /\ StageIdle
    /\ SessionIdle
    /\ lessons = <<>>
    /\ toolCall = NoToolCall
    /\ disk = [path \in Paths |-> "whole"]
    /\ participants = {}
    /\ taskState = "running"
    /\ queued = <<>>
    /\ delivered = <<>>
    /\ slept = 0
    /\ idle = 0
    /\ lastEvent = "none"
    /\ mistakes = EmptyMistakes
    /\ now = 0
    /\ lastCall = NoCall
    /\ \E pair \in CallPairs :
           tasks = [t \in TaskIds |->
                       [loaded |-> <<>>, call |-> pair[t], pc |-> "load"]]
    /\ running = "none"
    /\ callbacks = <<>>
    /\ httpResponse = NoResponse
    /\ GEMINI_API_KEY = ""

\* the task may run: the loop is free or the task holds it
MayRun(t) == running \in {"none", t}

\* who holds the loop after task t ran the statement
LoopAfter(t, step) == IF Awaits(step) THEN "none" ELSE t

\* with open(path, "r") as f: collection = json.load(f)
task_load ==
    \E t \in TaskIds :
        /\ MayRun(t)
        /\ tasks[t].pc = "load"
        /\ tasks' = [tasks EXCEPT
                        ![t].pc = "dump",
                        ![t].loaded = StoredCollection(tasks[t].call.tool)]
        /\ running' = LoopAfter(t, "load")
        /\ UNCHANGED <<memVars, stageVars, sessionVars, fileVars, liveVars,
                       callbacks, httpResponse,
                       GEMINI_API_KEY>>

\* the change of the collection and with open(path, "w") as f:
\* json.dump(collection, f)
task_dump ==
    \E t \in TaskIds :
        /\ MayRun(t)
        /\ tasks[t].pc = "dump"
        /\ LET new == Written(tasks[t].call, tasks[t].loaded, now)
               tool == tasks[t].call.tool
           IN  /\ mistakes' = IF tool = "record_mistake"
                              THEN new ELSE mistakes
               /\ lessons' = IF tool = "save_lesson_history"
                             THEN new ELSE lessons
               /\ profile' = IF tool = "save_user_profile"
                             THEN new ELSE profile
        /\ now' = now + 1
        /\ tasks' = [tasks EXCEPT ![t].pc = "callback"]
        /\ running' = LoopAfter(t, "dump")
        /\ UNCHANGED <<lastCall, stageVars, program, messages, transcript,
                       conversation_history, joined, pending, emitted,
                       toolCall, disk, liveVars, callbacks, httpResponse,
                       GEMINI_API_KEY>>

\* await result_callback({"success": True, ...}) inside the try: when the
\* callback raises, the except clause calls result_callback again with
\* the failure; then the handler returns
task_callback ==
    \E t \in TaskIds, raises \in BOOLEAN :
        /\ MayRun(t)
        /\ tasks[t].pc = "callback"
        /\ callbacks' =
               callbacks \o <<[success |-> TRUE, task |-> t]>>
               \o (IF raises THEN <<[success |-> FALSE, task |-> t]>>
                   ELSE <<>>)
        /\ tasks' = [tasks EXCEPT ![t].pc = "done"]
        /\ running' = "none"
        /\ UNCHANGED <<memVars, stageVars, sessionVars, fileVars, liveVars,
                       httpResponse, GEMINI_API_KEY>>

NextTasks == task_load \/ task_dump \/ task_callback

SpecTasks == InitTasks /\ [][NextTasks]_vars

---------------------------------------------------------------------------
(* Memory files that do not load (japanese_tutor.py).                      *)

\* what a memory file may be when the program starts
FileStates == {"whole", "missing", "empty", "partial"}

\* initialize_memory(): a file that does not exist is created with its
\* default collection; a file that exists is left as it is
initialize_memory(files) ==
    [path \in Paths |->
        IF files[path] = "missing" THEN "whole" ELSE files[path]]

\* the state after initialize_memory, with the files as they were found
InitPersist ==
    /\ StageIdle
    /\ lessons = <<>>
    /\ toolCall = NoToolCall
    /\ \E files \in [Paths -> FileStates] : disk = initialize_memory(files)
    /\ participants = {}
    /\ taskState = "running"
    /\ queued = <<>>
    /\ delivered = <<>>
    /\ slept = 0
    /\ idle = 0
    /\ lastEvent = "none"
    /\ tasks = <<>>
    /\ running = "none"
    /\ callbacks = <<>>
    /\ httpResponse = NoResponse
    /\ GEMINI_API_KEY = ""
    /\ mistakes = EmptyMistakes
    /\ now = 0
    /\ lastCall = NoCall
    /\ program = "japanese_tutor.py"
    /\ profile = DefaultProfile
    /\ messages = <<Message("system", SystemPrompt("japanese_tutor"))>>
    /\ transcript = <<>>
    /\ conversation_history = <<>>
    /\ joined = FALSE
    /\ pending = <<>>
    /\ emitted = NoEmission

NextPersist ==
    \/ get_user_profile
    \/ save_user_profile_write
    \/ record_mistake_write
    \/ save_lesson_history_write
    \/ on_first_participant_joined

SpecPersist == InitPersist /\ [][NextPersist]_vars

---------------------------------------------------------------------------
(* Properties of the mistakes collection.                                  *)

\* how many entries of items are entries of bucket
CountFrom(items, bucket) ==
    Cardinality({i \in 1..Len(items) : items[i] \in Range(bucket)})

CeilDiv(a, b) == (a + b - 1) \div b

IsReview == lastCall.tool = "get_mistakes_for_review"

\* C1: a review with limit 6 and no kind, on a store whose three buckets
\* hold at least 2 entries each, returns at least one entry of every kind
\* and at most 2 entries of any kind.
C1_ReviewFairness ==
    (/\ IsReview
     /\ lastCall.type = NoType
     /\ lastCall.limit = 6
     /\ \A k \in Kinds : Len(mistakes[k]) >= 2)
        => \A k \in Kinds :
               /\ CountFrom(lastCall.result.items, mistakes[k]) >= 1
               /\ CountFrom(lastCall.result.items, mistakes[k]) <= 2

\* C6: record_mistake with a kind outside the closed set reports a failure
\* to the caller and leaves the mistakes collection unchanged.
C6_UnknownKindFails ==
    [][(/\ lastCall'.tool = "record_mistake"
        /\ RecordType(lastCall'.type) \notin Kinds)
           => (/\ lastCall'.result.success = FALSE
               /\ mistakes' = mistakes)]_vars

\* C7: record_mistake with a kind of the closed set appends exactly one
\* entry at the end of that kind's bucket, with review_count 0 and
\* last_reviewed None, and changes no other bucket and no stored entry.
C7_RecordAppends ==
    [][(/\ lastCall'.tool = "record_mistake"
        /\ RecordType(lastCall'.type) \in Kinds)
           => LET k == RecordType(lastCall'.type)
                  n == Len(mistakes[k])
              IN  /\ Len(mistakes'[k]) = n + 1
                  /\ \A i \in 1..n : mistakes'[k][i] = mistakes[k][i]
                  /\ mistakes'[k][n + 1].review_count = 0
                  /\ mistakes'[k][n + 1].last_reviewed = None
                  /\ mistakes'[k][n + 1] \notin Range(mistakes[k])
                  /\ \A j \in Kinds \ {k} : mistakes'[j] = mistakes[j]
                  /\ lastCall'.result.success = TRUE]_vars

\* a grammar mistake was just recorded behind an older one, with entries
\* in the other two buckets
C7_Witness ==
    /\ lastCall.tool = "record_mistake"
    /\ lastCall.type = "grammar"
    /\ Len(mistakes["grammar"]) = 2
    /\ mistakes["grammar"][2].timestamp = now - 1
    /\ Len(mistakes["vocabulary"]) >= 1
    /\ Len(mistakes["pronunciation"]) >= 1

\* C8: a review increments review_count and sets last_reviewed to the time
\* of the call on every stored entry it returns, and leaves every other
\* stored entry as it was.
C8_ReviewMarksEntries ==
    [][lastCall'.tool = "get_mistakes_for_review"
           => \A k \in Kinds :
                  /\ Len(mistakes'[k]) = Len(mistakes[k])
                  /\ \A i \in 1..Len(mistakes[k]) :
                         IF mistakes[k][i] \in Range(lastCall'.result.items)
                         THEN /\ mistakes'[k][i].review_count
                                     = mistakes[k][i].review_count + 1
                              /\ mistakes'[k][i].last_reviewed = now
                         ELSE mistakes'[k][i] = mistakes[k][i]]_vars

\* C9: a review without a kind and with limit L >= 1 returns at most
\* ceil(L/3) entries of each bucket and at most L entries in total.
C9_MixedPerBucketCap ==
    (/\ IsReview
     /\ lastCall.type = NoType
     /\ GetLimit(lastCall.limit) >= 1)
        => /\ \A k \in Kinds :
                  CountFrom(lastCall.result.items, mistakes[k])
                      <= CeilDiv(GetLimit(lastCall.limit), 3)
           /\ Len(lastCall.result.items) <= GetLimit(lastCall.limit)

\* C10: a review with kind k and limit L returns exactly the first
\* min(L, size of bucket k) entries of bucket k in insertion order and no
\* entry of another bucket.
C10_TypedReviewPrefix ==
    (IsReview /\ lastCall.type \in Kinds)
        => LET items == lastCall.result.items
               bucket == mistakes[lastCall.type]
               L == GetLimit(lastCall.limit)
           IN  /\ Len(items) = Min(L, Len(bucket))
               /\ \A i \in 1..Len(items) : items[i] = bucket[i]
               /\ \A j \in Kinds \ {lastCall.type} :
                      CountFrom(items, mistakes[j]) = 0

\* a grammar review with limit 2 on a grammar bucket of 3 entries, with
\* entries in the other two buckets
C10_Witness ==
    /\ IsReview
    /\ lastCall.type = "grammar"
    /\ lastCall.limit = 2
    /\ Len(mistakes["grammar"]) = 3
    /\ Len(lastCall.result.items) = 2
    /\ Len(mistakes["vocabulary"]) >= 1
    /\ Len(mistakes["pronunciation"]) >= 1

---------------------------------------------------------------------------
(* Properties of the frame processors.                                     *)

TutorStages == {"CleanTutor", "MultimodalTutor", "SimpleTutor"}

\* the frame was a user's TranscriptionFrame or TextFrame
IsUserTextFrame(frame) == frame.type \in {"TranscriptionFrame", "TextFrame"}

\* the stage has a branch for the frame's class
Handles(stage, frame) ==
    IF stage = "ImageProcessor" THEN IsInstance(frame, "ImageRawFrame")
    ELSE IsInstance(frame, "TextFrame")

\* C3: a user text that equals "stop" or "quit" after trimming and
\* ignoring case makes the router emit the fixed farewell text as its only
\* output; no context frame goes to the language model.
C3_StopShortCircuits ==
    (/\ stageIn.stage \in TutorStages
     /\ IsUserTextFrame(stageIn.frame)
     /\ Lower(Strip(stageIn.frame.text)) \in {S_stop, S_quit})
        => /\ Len(stageOut) = 1
           /\ stageOut[1].frame = TextFrame(Farewell)

\* C4: a user TranscriptionFrame or TextFrame whose text contains "camera"
\* or "look at" in any case makes the router emit exactly one TextFrame,
\* the image-upload prompt, and no context frame for the language model.
C4_CameraShortCircuits ==
    (/\ stageIn.stage \in {"CleanTutor", "MultimodalTutor"}
     /\ IsUserTextFrame(stageIn.frame)
     /\ MentionsCamera(stageIn.frame.text))
        => /\ Len(stageOut) = 1
           /\ stageOut[1].frame = TextFrame(UploadPrompt)

\* C5: a stage that has no branch for a frame's class outputs exactly that
\* frame, unchanged, in the direction in which it arrived.
C5_Transparency ==
    (stageIn.stage # "none" /\ ~Handles(stageIn.stage, stageIn.frame))
        => stageOut = <<[frame |-> stageIn.frame,
                         direction |-> stageIn.direction]>>

---------------------------------------------------------------------------
(* Properties of the sessions.                                             *)

\* the user and assistant turns of the running session, oldest first
SessionTurns ==
    CASE program = "japanese_tutor.py" -> Tail(messages)
      [] program \in WebPrograms -> conversation_history
      [] OTHER -> transcript

\* the frame carries a context for the language model
IsContext(frame) ==
    frame.type \in {"LLMMessagesFrame", "OpenAILLMContextFrame",
                    "ChatCompletionRequest"}

\* ctx is the system prompt followed by exactly the turns, in order
CompleteContext(ctx, turns) ==
    /\ Len(ctx) = Len(turns) + 1
    /\ ctx[1].role = "system"
    /\ \A j \in 1..Len(turns) :
           /\ ctx[j + 1].role = turns[j].role
           /\ ctx[j + 1].text = turns[j].text

\* C2: whenever a final user transcription or user message is taken into
\* the session, the context sent to the language model holds the system
\* prompt, every earlier turn of the session in order and the new turn,
\* each once.
C2_TurnBoundaryCompleteness ==
    [][(/\ Len(SessionTurns') = Len(SessionTurns) + 1
        /\ SessionTurns'[Len(SessionTurns')].role = "user")
           => \A i \in 1..Len(emitted'.frames) :
                  IsContext(emitted'.frames[i])
                      => CompleteContext(emitted'.frames[i].messages,
                                         SessionTurns')]_vars

---------------------------------------------------------------------------
(* Properties of the user profile.                                         *)

\* C11: a save_user_profile call that repeats the arguments of the call
\* just before it leaves the stored profile as the first call left it.
C11_ProfileMergeIdempotent ==
    [][(/\ toolCall.tool = "save_user_profile"
        /\ toolCall'.tool = "save_user_profile"
        /\ toolCall'.args = toolCall.args)
           => profile' = profile]_vars

\* the same update was applied a second time: the call carries a name and
\* a list, and found them stored already
C11_Witness ==
    /\ toolCall.tool = "save_user_profile"
    /\ {"name", "interests"} \subseteq DOMAIN toolCall.args
    /\ toolCall.loaded = profile
    /\ profile.name = toolCall.args["name"]
    /\ profile.interests = toolCall.args["interests"]

\* C12: save_user_profile gives every profile key the call carries the
\* value of the call, leaves every other profile key as it was, ignores a
\* key the profile does not have and reports success; the keys of the
\* profile stay name, level, interests, preferred_topics, learning_goals.
C12_ProfileMerges ==
    [][toolCall'.tool = "save_user_profile" /\ toolCall' # toolCall
           => /\ DOMAIN profile' = Range(ProfileKeys)
              /\ \A key \in Range(ProfileKeys) :
                     profile'[key] = IF key \in DOMAIN toolCall'.args
                                     THEN toolCall'.args[key]
                                     ELSE profile[key]
              /\ toolCall'.result.success]_vars

\* a call with a known key, an unknown key and a known key left out has
\* changed a profile that was not the default one
C12_Witness ==
    /\ toolCall.tool = "save_user_profile"
    /\ {"level", "age"} \subseteq DOMAIN toolCall.args
    /\ "name" \notin DOMAIN toolCall.args
    /\ toolCall.loaded.name = "Aiko"
    /\ toolCall.loaded.level # toolCall.args["level"]
    /\ profile.name = "Aiko"
    /\ profile.level = toolCall.args["level"]

---------------------------------------------------------------------------
(* Properties of the lesson log.                                           *)

\* C13: get_lesson_history with limit L >= 0 (5 when the call has none) on
\* a log of n records reports exactly the last min(L, n) records, in the
\* order of the log.
C13_RecentLessons ==
    toolCall.tool = "get_lesson_history"
        => LET L == GetLimit(toolCall.args.limit)
               n == Len(toolCall.loaded)
           IN  toolCall.result.lessons
                   = SubSeq(toolCall.loaded, n - Min(L, n) + 1, n)

IsPrefix(s, t) == Len(s) <= Len(t) /\ SubSeq(t, 1, Len(s)) = s

\* C14: every operation leaves the log it found as a prefix of the log it
\* leaves; save_lesson_history adds exactly one record, at the end, with
\* the topic and the content of the call; no other operation changes the
\* log.
C14_LessonLogAppendOnly ==
    [][/\ IsPrefix(lessons, lessons')
       /\ IF toolCall'.tool = "save_lesson_history"
          THEN /\ Len(lessons') = Len(lessons) + 1
               /\ lessons'[Len(lessons')].topic
                      = GetTopic(toolCall'.args.topic)
               /\ lessons'[Len(lessons')].content
                      = GetContent(toolCall'.args.content)
          ELSE lessons' = lessons]_vars

\* a lesson was saved onto a log that held two different records
C14_Witness ==
    /\ toolCall.tool = "save_lesson_history"
    /\ Len(toolCall.loaded) = 2
    /\ toolCall.loaded[1].topic # toolCall.loaded[2].topic
    /\ Len(lessons) = 3
    /\ lessons[3].topic # lessons[2].topic

\* C18: on the first participant join of japanese_tutor.py the greeting
\* is appended to the context as an assistant turn and queued as a
\* TextFrame, and the greeting carries the stored name exactly when the
\* stored name is not empty.
C18_GreetingOnFirstJoin ==
    [][(program = "japanese_tutor.py" /\ ~joined /\ joined')
           => /\ Len(messages') = Len(messages) + 1
              /\ SubSeq(messages', 1, Len(messages)) = messages
              /\ messages'[Len(messages')].role = "assistant"
              /\ emitted'.frames
                     = <<TextFrame(messages'[Len(messages')].text)>>
              /\ (profile.name # ""
                     <=> profile.name
                             \in Range(messages'[Len(messages')].text))]_vars

\* the first participant joined a session whose profile has a name, and
\* the greeting with the name is in the context and queued
C18_Witness ==
    /\ program = "japanese_tutor.py"
    /\ joined
    /\ profile.name = "Aiko"
    /\ Len(messages) = 2
    /\ messages[2].role = "assistant"
    /\ "Aiko" \in Range(messages[2].text)
    /\ emitted.by = "on_first_participant_joined"
    /\ emitted.frames = <<TextFrame(messages[2].text)>>

---------------------------------------------------------------------------
(* Properties of the room and the pipeline task.                           *)

\* the frame is the farewell of on_participant_left
IsFarewell(frame) ==
    frame.type = "TextFrame" /\ frame.text = LeaveFarewell(profile)

\* C16: the pipeline task is never cancelled while the farewell queued for
\* the last participant who left is still queued and was not put out.
C16_FarewellDelivered ==
    taskState = "cancelled"
        => \A i \in 1..Len(queued) : ~IsFarewell(queued[i])

\* C17: when a participant leaves and another remote participant is still
\* in the room, no farewell is queued and the task is not cancelled.
C17_EndsOnlyWhenAlone ==
    [][(lastEvent' = "participant_left" /\ participants' # {}
           /\ participants' # participants)
           => /\ taskState' = taskState
              /\ queued' = queued]_vars

\* C19: a heartbeat is emitted only when the session is listening and no
\* user or assistant frame was seen for 60 seconds, at most one in 60
\* seconds; it adds nothing to the context or to the output and leaves the
\* state of the session as it was.
C19_IdleHeartbeat ==
    [][lastEvent' = "heartbeat"
           => /\ Listening
              /\ idle >= HeartbeatSeconds
              /\ slept >= HeartbeatSeconds
              /\ messages' = messages
              /\ delivered' = delivered
              /\ joined' = joined
              /\ taskState' = taskState
              /\ Listening']_vars

---------------------------------------------------------------------------
(* Properties of the writes of the memory files.                           *)

\* C20: however a write of save_user_profile, record_mistake or
\* save_lesson_history ends, every memory file holds a complete
\* collection, the one before the write or the one after it; no file is
\* ever empty or partly written.
C20_AtomicWrites == \A path \in Paths : disk[path] = "whole"

---------------------------------------------------------------------------
(* Properties of tool calls that run as tasks.                             *)

\* the stored collection holds what the call wrote
HoldsEffect(call) ==
    CASE call.tool = "record_mistake" ->
             \E i \in 1..Len(mistakes[call.args.type]) :
                 mistakes[call.args.type][i].mistake = call.args.mistake
      [] call.tool = "save_lesson_history" ->
             \E i \in 1..Len(lessons) :
                 /\ lessons[i].topic = GetTopic(call.args.topic)
                 /\ lessons[i].content = call.args.content
      [] OTHER ->
             \A key \in DOMAIN call.args : profile[key] = call.args[key]

AllTasksDone ==
    /\ DOMAIN tasks = TaskIds
    /\ \A t \in TaskIds : tasks[t].pc = "done"

\* C21: when two write tool calls on the same collection run as tasks of
\* one process, the stored collection holds the effect of both once both
\* have ended, whatever the order in which the loop ran them.
C21_NoLostUpdates ==
    AllTasksDone => \A t \in TaskIds : HoldsEffect(tasks[t].call)

\* both calls have ended, and the second to write started after the first
\* had written
C21_Witness ==
    /\ AllTasksDone
    /\ Len(callbacks) = 2
    /\ callbacks[1].task = "b"
    /\ tasks["a"].call.tool = "record_mistake"
    /\ tasks["a"].call.args.type = tasks["b"].call.args.type

---------------------------------------------------------------------------
(* Properties of memory files that do not load.                            *)

\* the step is a memory operation on the profile file
ProfileOperation ==
    \/ /\ toolCall' # toolCall
       /\ toolCall'.tool \in {"get_user_profile", "save_user_profile"}
    \/ joined' # joined

\* C22: when the profile file does not load at the moment a memory
\* operation runs, the operation leaves the file whole with the default
\* profile, so that later operations on it succeed.
C22_ReinitialisedOnError ==
    [][(ProfileOperation /\ ~Loads("USER_PROFILE_PATH"))
          => /\ disk'["USER_PROFILE_PATH"] = "whole"
             /\ profile' = DefaultProfile]_vars

---------------------------------------------------------------------------
(* Properties of the web interfaces.                                       *)

\* C23: when the call of the language model fails with a status other
\* than 200, an exception or a timeout, chat_handler answers with the
\* apology as the assistant reply, with status 200 and without an error,
\* and the apology is a turn of the history.
C23_ApologyOnFailure ==
    (program \in WebPrograms /\ httpResponse.llm \in {"status", "exception"})
        => /\ httpResponse.status = 200
           /\ httpResponse.error = "none"
           /\ httpResponse.response = Apology
           /\ Message("assistant", Apology) \in Range(conversation_history)

\* C29: conversation_history alternates user, assistant, user, assistant
\* after any sequence of chat requests, overlapping or failing ones
\* included.
C29_HistoryAlternates ==
    program \in WebPrograms
        => \A i \in 1..Len(conversation_history) :
               conversation_history[i].role
                   = IF i % 2 = 1 THEN "user" ELSE "assistant"

\* the messages of the request that carry an image part
ImageParts(msgs) == {i \in 1..Len(msgs) : msgs[i].image # NoImage}

\* C30: a request to Gemini built for a chat request with image_data
\* carries the image part in exactly one message, the last one.
C30_ImageOnLastMessageOnly ==
    \A i \in 1..Len(emitted.frames) :
        (/\ emitted.frames[i].type = "GenerateContentRequest"
         /\ emitted.frames[i].image # NoImage)
            => ImageParts(emitted.frames[i].messages)
                   = {Len(emitted.frames[i].messages)}

\* the list of turns the running program keeps
StoredTranscript ==
    CASE program = "japanese_tutor.py" -> messages
      [] program \in WebPrograms -> conversation_history
      [] OTHER -> transcript

\* C26: the transcript before an event is a prefix of the transcript
\* after it, and the first element of the transcript is the system
\* prompt.
C26_TranscriptAppendOnly ==
    [][(program \in {"japanese_tutor.py"} \cup WebPrograms)
          => (/\ IsPrefix(StoredTranscript, StoredTranscript')
              /\ (StoredTranscript' # <<>>
                     => StoredTranscript'[1].role = "system"))]_vars

---------------------------------------------------------------------------
(* Properties of the image marker and of interim transcriptions.           *)

\* C24: a user text that contains the marker "[IMAGE]" in any case, with
\* no image attached, makes the tutor emit the image-upload prompt as its
\* only output; no context goes to the language model.
C24_ImageMarkerPrompts ==
    (/\ stageIn.stage \in {"CleanTutor", "MultimodalTutor"}
     /\ IsUserTextFrame(stageIn.frame)
     /\ Contains(Upper(stageIn.frame.text), S_IMAGE)
     /\ stageIn.frame.image = NoImage)
        => /\ Len(stageOut) = 1
           /\ stageOut[1].frame = TextFrame(UploadPrompt)

\* C25: a transcription that is not final never causes a context to be
\* sent to the language model: a tutor stage that receives an
\* InterimTranscriptionFrame pushes no context frame.
C25_OnlyFinalTriggers ==
    (/\ stageIn.stage \in TutorStages
     /\ stageIn.frame.type = "InterimTranscriptionFrame")
        => \A i \in 1..Len(stageOut) : ~IsContext(stageOut[i].frame)

---------------------------------------------------------------------------
(* Properties of the greeting of a join and of the result callback.        *)

\* C27: the join of the first participant of japanese_tutor.py queues
\* exactly one frame, a greeting; the two handlers that run for that join
\* do not queue two greetings.
C27_OneGreetingPerJoin ==
    [][(program = "japanese_tutor.py" /\ ~joined /\ joined')
           => /\ Len(queued') = Len(queued) + 1
              /\ queued'[Len(queued')].type = "TextFrame"]_vars

\* the calls of result_callback the tool call of task t has made
CallbacksOf(t) == {i \in 1..Len(callbacks) : callbacks[i].task = t}

\* C28: a memory tool call that has ended has called result_callback
\* exactly once, also when handing over the success result raised.
C28_OneCallbackPerCall ==
    \A t \in DOMAIN tasks :
        tasks[t].pc = "done" => Cardinality(CallbacksOf(t)) = 1

=============================================================================
